---- MODULE Spec2Model ----
(***************************************************************************)
(* Model of the stock-market cleaning and aggregation pipeline:            *)
(*   src/02_clean_data.py                        (schema + cell cleaning)  *)
(*   src/Stock_Market_Analysis/03_create_aggregations.py  (six views)      *)
(*                                                                         *)
(* Text is modelled as a sequence of one-character strings so that trim,   *)
(* casing, regular-expression substitution, substring search and numeric   *)
(* parsing are computed, not assumed.  The missing value (pd.NA / NaN /    *)
(* None) is the one-element sequence NULL, whose element is not a          *)
(* character.                                                              *)
(***************************************************************************)
EXTENDS Integers, Sequences, FiniteSets, TLC

VARIABLES
    header,     \* 02_clean_data: raw header row (df.columns after read_csv)
    columns,    \* 02_clean_data / 03: current column names
    hpc,        \* position of the header run
    colName,    \* cell run: canonical name of the column the cell is in
    rawCell,    \* cell run: text of the cell in the CSV file
    cell,       \* cell run: current value of the cell in df
    cpc,        \* position of the cell run
    raw,        \* aggregation run: the raw rows cleaned.parquet was cleaned from
    cleaned,    \* aggregation run: the table read from cleaned.parquet
    df,         \* aggregation run: the working DataFrame of create_aggregations
    views,      \* aggregation run: the six computed views
    apc,        \* position of the aggregation run
    store,      \* pipeline run: the files on disk, by name
    run,        \* pipeline run: number of the current run (identifies its raw input)
    dfVer,      \* pipeline run: which run's data the DataFrame in memory holds
    rpc,        \* pipeline run: position
    failed,     \* pipeline run: the view whose write raised, or "none"
    nullDate    \* pipeline run: the cleaned table holds a null trade_date

vars == <<header, columns, hpc, colName, rawCell, cell, cpc,
          raw, cleaned, df, views, apc, store, run, dfVer, rpc, failed, nullDate>>

headerVars == <<header, columns, hpc>>
cellVars   == <<colName, rawCell, cell, cpc>>
aggVars    == <<raw, cleaned, df, views, apc>>
runVars    == <<store, run, dfVer, rpc, failed, nullDate>>

-----------------------------------------------------------------------------
(* Bounds *)

MaxHdrLen  == 3     \* longest first raw header
MaxHdr2Len == 2     \* longest second raw header
MaxCellLen == 3     \* longest enumerated raw cell
MaxRows    == 2     \* most rows of the cleaned table
MaxRuns    == 2     \* most pipeline runs
MaxPriceLen == 2    \* longest enumerated price text

-----------------------------------------------------------------------------
(* Text *)

NULL == <<"<NA>">>

UpperLetters == <<"A","B","C","D","E","F","G","H","I","J","K","L","M",
                  "N","O","P","Q","R","S","T","U","V","W","X","Y","Z">>
LowerLetters == <<"a","b","c","d","e","f","g","h","i","j","k","l","m",
                  "n","o","p","q","r","s","t","u","v","w","x","y","z">>
Digits       == <<"0","1","2","3","4","5","6","7","8","9">>

Range(s) == { s[i] : i \in DOMAIN s }

IsUpperChar(c) == c \in Range(UpperLetters)
IsLowerChar(c) == c \in Range(LowerLetters)
IsDigit(c)     == c \in Range(Digits)
IsAlnum(c)     == IsUpperChar(c) \/ IsLowerChar(c) \/ IsDigit(c)

IndexIn(c, s) == CHOOSE i \in DOMAIN s : s[i] = c

LowerChar(c) == IF IsUpperChar(c) THEN LowerLetters[IndexIn(c, UpperLetters)] ELSE c
UpperChar(c) == IF IsLowerChar(c) THEN UpperLetters[IndexIn(c, LowerLetters)] ELSE c

\* str.lower(), str.upper()
Lower(s) == [i \in DOMAIN s |-> LowerChar(s[i])]
Upper(s) == [i \in DOMAIN s |-> UpperChar(s[i])]

\* str.lstrip / str.rstrip / str.strip over a set of characters
RECURSIVE LStripSet(_, _)
LStripSet(s, cs) ==
    IF s = <<>> THEN <<>>
    ELSE IF Head(s) \in cs THEN LStripSet(Tail(s), cs) ELSE s

RECURSIVE RStripSet(_, _)
RStripSet(s, cs) ==
    IF s = <<>> THEN <<>>
    ELSE IF s[Len(s)] \in cs THEN RStripSet(SubSeq(s, 1, Len(s) - 1), cs) ELSE s

StripSet(s, cs) == RStripSet(LStripSet(s, cs), cs)

\* str.strip() with no argument: white space
Strip(s) == StripSet(s, {" ", "\t"})

\* sub in s  (Python substring test)
Contains(s, sub) ==
    \E i \in 0..(Len(s) - Len(sub)) : SubSeq(s, i + 1, i + Len(sub)) = sub

\* all texts over an alphabet up to a length
TextsUpTo(alphabet, n) == UNION { [1..k -> alphabet] : k \in 0..n }

-----------------------------------------------------------------------------
(* 02_clean_data.py: to_snake_case *)

RECURSIVE DropNonAlnum(_)
DropNonAlnum(s) ==
    IF s = <<>> THEN <<>>
    ELSE IF IsAlnum(Head(s)) THEN s ELSE DropNonAlnum(Tail(s))

\* re.sub(r'[^0-9a-zA-Z]+', '_', s)
RECURSIVE SubNonAlnum(_)
SubNonAlnum(s) ==
    IF s = <<>> THEN <<>>
    ELSE IF IsAlnum(Head(s)) THEN <<Head(s)>> \o SubNonAlnum(Tail(s))
    ELSE <<"_">> \o SubNonAlnum(DropNonAlnum(Tail(s)))

\* re.sub(r'_+', '_', s)
RECURSIVE CollapseUnderscores(_)
CollapseUnderscores(s) ==
    IF s = <<>> THEN <<>>
    ELSE IF Head(s) = "_"
         THEN <<"_">> \o CollapseUnderscores(LStripSet(Tail(s), {"_"}))
         ELSE <<Head(s)>> \o CollapseUnderscores(Tail(s))

\* the same function without the final strip('_')
to_snake_case_nostrip(column_name) ==
    Lower(CollapseUnderscores(SubNonAlnum(Strip(column_name))))

to_snake_case(column_name) ==
    StripSet(Lower(CollapseUnderscores(SubNonAlnum(Strip(column_name)))), {"_"})

\* str.replace(" ", "_")
ReplaceSpace(s) == [i \in DOMAIN s |-> IF s[i] = " " THEN "_" ELSE s[i]]

\* 03_create_aggregations.py line 15: c.strip().lower().replace(" ", "_")
AggColumnName(c) == ReplaceSpace(Lower(Strip(c)))

\* lower-case letters, digits and single underscores, none leading or trailing
IsCanonicalName(s) ==
    /\ \A i \in DOMAIN s : IsLowerChar(s[i]) \/ IsDigit(s[i]) \/ s[i] = "_"
    /\ s # <<>> => (s[1] # "_" /\ s[Len(s)] # "_")
    /\ \A i \in 1..(Len(s) - 1) : ~(s[i] = "_" /\ s[i + 1] = "_")

-----------------------------------------------------------------------------
(* Header run: 02_clean_data.py on a two-column header, then the           *)
(* re-normalisation at the start of create_aggregations                    *)

HdrAlphabet == {"a", "B", "1", " ", "_", "-"}

\* df.columns after read_csv: non-empty and pairwise distinct (read_csv
\* renames an empty header to "Unnamed: n" and a repeated one to "name.n")
RawHeaders ==
    { h \in [1..2 -> TextsUpTo(HdrAlphabet, MaxHdrLen) \ {<<>>}] :
        /\ Len(h[2]) <= MaxHdr2Len
        /\ h[1] # h[2] }

IdleHeader == header = <<>> /\ columns = <<>> /\ hpc = "idle"
IdleCell   == colName = <<>> /\ rawCell = <<>> /\ cell = <<>> /\ cpc = "idle"
IdleAgg    == raw = <<>> /\ cleaned = <<>> /\ df = <<>> /\ views = <<>> /\ apc = "idle"
IdleRun    == /\ store = <<>> /\ run = 0 /\ dfVer = 0 /\ rpc = "idle"
              /\ failed = "none" /\ nullDate = FALSE

InitHeader ==
    /\ header \in RawHeaders
    /\ columns = header
    /\ hpc = "loaded"
    /\ IdleCell /\ IdleAgg /\ IdleRun

\* line 26: df.columns = [to_snake_case(col) for col in df.columns]
RenameColumns ==
    /\ hpc = "loaded"
    /\ columns' = [i \in DOMAIN columns |-> to_snake_case(columns[i])]
    /\ hpc' = "renamed"
    /\ UNCHANGED <<header, cellVars, aggVars, runVars>>

\* lines 42-48: for col in ...columns: df[col] = df[col].astype("string").str...
\* With a repeated column name df[col] is a DataFrame, which has no .str:
\* the script stops with an AttributeError.
CaseColumns ==
    /\ hpc = "renamed"
    /\ hpc' = IF columns[1] = columns[2] THEN "AttributeError" ELSE "cleaned"
    /\ UNCHANGED <<header, columns, cellVars, aggVars, runVars>>

\* 03_create_aggregations.py line 15 on the cleaned table's columns
RenameAggColumns ==
    /\ hpc = "cleaned"
    /\ columns' = [i \in DOMAIN columns |-> AggColumnName(columns[i])]
    /\ hpc' = "agg"
    /\ UNCHANGED <<header, cellVars, aggVars, runVars>>

NextHeader == RenameColumns \/ CaseColumns \/ RenameAggColumns

SpecHeader == InitHeader /\ [][NextHeader]_vars

\* C6: when two distinct raw headers normalise to the same name the
\* normalisation reports a schema error; the renamed table never has two
\* columns sharing one name.
C6_NoSharedColumnName ==
    hpc \in {"renamed", "cleaned", "agg"} => columns[1] # columns[2]

\* C7: header normalisation is idempotent, its result is canonical
\* (lower-case letters, digits, single underscores, none leading or
\* trailing), and the re-normalisation of create_aggregations leaves a
\* canonical name unchanged.
C7_NormalizeIdempotent ==
    /\ hpc = "renamed" =>
         \A i \in DOMAIN columns :
            /\ columns[i] = to_snake_case(header[i])
            /\ to_snake_case(columns[i]) = columns[i]
            /\ IsCanonicalName(columns[i])
            /\ AggColumnName(columns[i]) = columns[i]
    /\ hpc = "agg" =>
         \A i \in DOMAIN columns : columns[i] = to_snake_case(header[i])

\* a header with punctuation, upper case and surrounding blanks was renamed
\* and then re-normalised by create_aggregations
C7_Witness ==
    /\ hpc = "agg"
    /\ \E i \in DOMAIN header :
          /\ header[i] # columns[i]
          /\ Contains(columns[i], <<"_">>)
          /\ \E j \in DOMAIN header[i] : IsUpperChar(header[i][j])

-----------------------------------------------------------------------------
(* Cell run: 02_clean_data.py on one cell of one column *)

\* pandas.read_csv, default na_values with keep_default_na=True: a field
\* whose text is one of these is read as NaN even with dtype=str
read_csv_na_values ==
    { <<>>,
      <<"#","N","/","A">>,
      <<"#","N","/","A"," ","N","/","A">>,
      <<"#","N","A">>,
      <<"-","1",".","#","I","N","D">>,
      <<"-","1",".","#","Q","N","A","N">>,
      <<"-","N","a","N">>,
      <<"-","n","a","n">>,
      <<"1",".","#","I","N","D">>,
      <<"1",".","#","Q","N","A","N">>,
      <<"<","N","A",">">>,
      <<"N","/","A">>,
      <<"N","A">>,
      <<"N","U","L","L">>,
      <<"N","a","N">>,
      <<"N","o","n","e">>,
      <<"n","/","a">>,
      <<"n","a","n">>,
      <<"n","u","l","l">> }

\* line 36
missing_tokens_short ==
    { <<>>,
      <<"N","A">>,
      <<"N","/","A">>,
      <<"n","a">>,
      <<"N","a","N">>,
      <<"n","u","l","l">>,
      <<"N","o","n","e">> }

missing_tokens ==
    { <<>>,
      <<"N","A">>,
      <<"N","/","A">>,
      <<"n","a">>,
      <<"N","a","N">>,
      <<"n","u","l","l">>,
      <<"N","o","n","e">>,
      <<"-">> }

\* line 10: pd.read_csv(url, dtype=str), one field
ReadField(text) == IF text \in read_csv_na_values THEN NULL ELSE text

\* line 32: x.strip() if isinstance(x, str) else x
TrimValue(x) == IF x = NULL THEN x ELSE Strip(x)

\* line 39: df.replace(missing_tokens, pd.NA)
ReplaceMissing(x) == IF x \in missing_tokens THEN NULL ELSE x

ColTicker     == <<"t","i","c","k","e","r">>
ColTickerName == <<"t","i","c","k","e","r","_","n","a","m","e">>
ColNotes      == <<"n","o","t","e","s">>
ColTradeDate  == <<"t","r","a","d","e","_","d","a","t","e">>

\* the same casing with every column lower-cased
CaseValue_alllower(col, x) == IF x = NULL THEN x ELSE Lower(x)

\* lines 42-48: upper-case when "ticker" in col, else lower-case; <NA> stays
CaseValue(col, x) ==
    IF x = NULL THEN x
    ELSE IF Contains(col, ColTicker) THEN Upper(x) ELSE Lower(x)

DigitVal(c) == IndexIn(c, Digits) - 1

RECURSIVE DigitsVal(_)
DigitsVal(s) ==
    IF s = <<>> THEN 0 ELSE DigitsVal(SubSeq(s, 1, Len(s) - 1)) * 10 + DigitVal(s[Len(s)])

AllDigits(s) == s # <<>> /\ \A i \in DOMAIN s : IsDigit(s[i])

IsLeapYear(y) == (y % 4 = 0 /\ y % 100 # 0) \/ y % 400 = 0

DaysInMonth(y, m) ==
    IF m = 2 THEN (IF IsLeapYear(y) THEN 29 ELSE 28)
    ELSE IF m \in {4, 6, 9, 11} THEN 30 ELSE 31

\* the missing timestamp
NaT == [y |-> 0, m |-> 0, d |-> 0]

\* pd.to_datetime(..., errors="coerce") on one text.  Of the date formats the
\* parser accepts the model reads YYYY-MM-DD, the only one among the
\* enumerated cells; everything else is coerced to NaT.
ParseDate(x) ==
    IF x = NULL \/ Len(x) # 10 THEN NaT
    ELSE IF ~( /\ AllDigits(SubSeq(x, 1, 4)) /\ x[5] = "-"
               /\ AllDigits(SubSeq(x, 6, 7)) /\ x[8] = "-"
               /\ AllDigits(SubSeq(x, 9, 10)) ) THEN NaT
    ELSE LET y == DigitsVal(SubSeq(x, 1, 4))
             m == DigitsVal(SubSeq(x, 6, 7))
             d == DigitsVal(SubSeq(x, 9, 10))
         IN  IF y >= 1 /\ m \in 1..12 /\ d \in 1..DaysInMonth(y, m)
             THEN [y |-> y, m |-> m, d |-> d] ELSE NaT

\* zero-padded decimal of width w
RECURSIVE Pad(_, _)
Pad(n, w) == IF w = 0 THEN <<>> ELSE Pad(n \div 10, w - 1) \o <<Digits[(n % 10) + 1]>>

\* .dt.strftime("%Y-%m-%d"); NaT gives NaN
FormatDate(t) ==
    IF t = NaT THEN NULL
    ELSE Pad(t.y, 4) \o <<"-">> \o Pad(t.m, 2) \o <<"-">> \o Pad(t.d, 2)

\* lines 52-55
FixDate(col, x) == IF col = ColTradeDate THEN FormatDate(ParseDate(x)) ELSE x

CellAlphabet == {"N", "A", "n", "a", " ", "-"}

SampleCells ==
    { <<"N","/","A">>,
      <<" ","N","/","A"," ">>,
      <<"n","u","l","l">>,
      <<"N","o","n","e">>,
      <<"N","U","L","L">>,
      <<"N","u","l","l">>,
      <<"n","/","a">>,
      <<"<","N","A",">">>,
      <<"M","s","f","t">>,
      <<" ","m","s","f","t">>,
      <<"G","a","p"," ","U","p">>,
      <<"2","0","2","4","-","0","1","-","0","2">>,
      <<"2","0","2","4","-","0","2","-","3","0">>,
      <<" ","2","0","2","3","-","1","2","-","3","1">> }

RawCells == TextsUpTo(CellAlphabet, MaxCellLen) \cup SampleCells

ColNames == {ColTicker, ColTickerName, ColNotes, ColTradeDate}

InitCell ==
    /\ colName \in ColNames
    /\ rawCell \in RawCells
    /\ cell = rawCell
    /\ cpc = "file"
    /\ IdleHeader /\ IdleAgg /\ IdleRun

ReadCsv ==
    /\ cpc = "file"
    /\ cell' = ReadField(rawCell)
    /\ cpc' = "read"
    /\ UNCHANGED <<colName, rawCell, headerVars, aggVars, runVars>>

TrimCells ==
    /\ cpc = "read"
    /\ cell' = TrimValue(cell)
    /\ cpc' = "trimmed"
    /\ UNCHANGED <<colName, rawCell, headerVars, aggVars, runVars>>

ReplaceTokens ==
    /\ cpc = "trimmed"
    /\ cell' = ReplaceMissing(cell)
    /\ cpc' = "replaced"
    /\ UNCHANGED <<colName, rawCell, headerVars, aggVars, runVars>>

CaseCells ==
    /\ cpc = "replaced"
    /\ cell' = CaseValue(colName, cell)
    /\ cpc' = "cased"
    /\ UNCHANGED <<colName, rawCell, headerVars, aggVars, runVars>>

FixDates ==
    /\ cpc = "cased"
    /\ cell' = FixDate(colName, cell)
    /\ cpc' = "done"
    /\ UNCHANGED <<colName, rawCell, headerVars, aggVars, runVars>>

NextCell == ReadCsv \/ TrimCells \/ ReplaceTokens \/ CaseCells \/ FixDates

SpecCell == InitCell /\ [][NextCell]_vars

\* the eight missing tokens the specification names
SpecTokens ==
    { <<>>, <<"N","A">>, <<"N","/","A">>, <<"n","a">>,
      <<"N","a","N">>, <<"n","u","l","l">>, <<"N","o","n","e">>, <<"-">> }

\* C8 as stated: a cell whose trimmed raw value is a missing token is
\* cleaned to null; every other non-empty trimmed value is cleaned to a
\* non-null value equal to it up to letter case.
C8_TokensOnlyBecomeNull ==
    cpc = "done" =>
        IF Strip(rawCell) \in SpecTokens
        THEN cell = NULL
        ELSE cell # NULL /\ Lower(cell) = Lower(Strip(rawCell))

\* C8 amended: the second half holds for the columns other than trade_date
\* and for the raw values read_csv does not itself read as missing.
C8_TokensBecomeNull ==
    cpc = "done" =>
        /\ Strip(rawCell) \in SpecTokens => cell = NULL
        /\ ( /\ Strip(rawCell) \notin SpecTokens
             /\ rawCell \notin read_csv_na_values
             /\ colName # ColTradeDate )
           => (cell # NULL /\ Lower(cell) = Lower(Strip(rawCell)))

\* a token with blanks around it, which only the replacement step (not
\* read_csv) turned into null
C8_Witness ==
    /\ cpc = "done"
    /\ rawCell \notin read_csv_na_values
    /\ Strip(rawCell) # rawCell
    /\ Strip(rawCell) \in SpecTokens \ {<<>>}
    /\ cell = NULL

\* C9 as stated: after cleaning, ticker is null or upper-case and every
\* other text column is null or lower-case.
C9_TickerUpperOthersLower ==
    cpc = "done" =>
        IF colName = ColTicker
        THEN cell = NULL \/ Upper(cell) = cell
        ELSE cell = NULL \/ Lower(cell) = cell

\* C9 amended: every column whose name contains "ticker" is null or
\* upper-case, every other column is null or lower-case.
C9_CasingByColumnName ==
    cpc = "done" =>
        IF Contains(colName, ColTicker)
        THEN cell = NULL \/ Upper(cell) = cell
        ELSE cell = NULL \/ Lower(cell) = cell

\* a text with lower-case letters in the ticker column came out upper-case
C9_Witness ==
    /\ cpc = "done"
    /\ colName = ColTicker
    /\ cell # NULL
    /\ Upper(cell) = cell
    /\ cell # Strip(rawCell)
    /\ Lower(cell) # cell

-----------------------------------------------------------------------------
(* Numbers: float64 columns.  A finite value is an exact fraction n/d in   *)
(* lowest terms (the model's prices have few digits; rounding of doubles   *)
(* is not modelled); NaN and the two infinities are separate kinds.        *)

RECURSIVE GCD(_, _)
GCD(a, b) == IF b = 0 THEN a ELSE GCD(b, a % b)

Abs(n) == IF n < 0 THEN 0 - n ELSE n

RECURSIVE Pow10(_)
Pow10(k) == IF k = 0 THEN 1 ELSE 10 * Pow10(k - 1)

NaN  == [k |-> "nan", n |-> 0, d |-> 1]
PInf == [k |-> "inf", n |-> 1, d |-> 1]
NInf == [k |-> "inf", n |-> 0 - 1, d |-> 1]

Frac(n, d) ==
    LET g == GCD(Abs(n), d) IN [k |-> "num", n |-> n \div g, d |-> d \div g]

Zero == Frac(0, 1)

IsNaN(a)    == a.k = "nan"
IsInf(a)    == a.k = "inf"
IsFinite(a) == a.k = "num"

NumNeg(a) == IF IsNaN(a) THEN NaN ELSE [a EXCEPT !.n = 0 - a.n]

\* IEEE addition: NaN is absorbing, inf + (-inf) is NaN
NumAdd(a, b) ==
    IF IsNaN(a) \/ IsNaN(b) THEN NaN
    ELSE IF IsInf(a) /\ IsInf(b) THEN (IF a.n = b.n THEN a ELSE NaN)
    ELSE IF IsInf(a) THEN a
    ELSE IF IsInf(b) THEN b
    ELSE Frac(a.n * b.d + b.n * a.d, a.d * b.d)

NumSub(a, b) == NumAdd(a, NumNeg(b))

\* division by a positive count
NumDivInt(a, c) == IF IsFinite(a) THEN Frac(a.n, a.d * c) ELSE a

\* position of the first "." of a text, 0 when there is none
RECURSIVE DotAt(_, _)
DotAt(x, i) ==
    IF i > Len(x) THEN 0 ELSE IF x[i] = "." THEN i ELSE DotAt(x, i + 1)

AllDigitsOrEmpty(x) == \A i \in DOMAIN x : IsDigit(x[i])

InfNames == { <<"i","n","f">>, <<"i","n","f","i","n","i","t","y">> }

\* pd.to_numeric(errors="coerce") on one value of an object column: a
\* decimal literal [sign] digits [. digits] (one side of the point may be
\* empty), "inf"/"infinity" in any case with an optional sign; a null and
\* every text that does not parse give NaN.  Exponents and digit
\* separators are outside the enumerated texts.
ToNumeric(x) ==
    IF x = NULL \/ x = <<>> THEN NaN
    ELSE LET signed == Head(x) \in {"+", "-"}
             sgn    == IF Head(x) = "-" THEN 0 - 1 ELSE 1
             body   == IF signed THEN Tail(x) ELSE x
             dot    == DotAt(body, 1)
             ip     == IF dot = 0 THEN body ELSE SubSeq(body, 1, dot - 1)
             fp     == IF dot = 0 THEN <<>> ELSE SubSeq(body, dot + 1, Len(body))
         IN  IF Lower(body) \in InfNames THEN (IF sgn = 1 THEN PInf ELSE NInf)
             ELSE IF /\ AllDigitsOrEmpty(ip) /\ AllDigitsOrEmpty(fp)
                     /\ Len(ip) + Len(fp) >= 1
                  THEN Frac(sgn * (DigitsVal(ip) * Pow10(Len(fp)) + DigitsVal(fp)),
                            Pow10(Len(fp)))
                  ELSE NaN

\* the same subtraction followed by fillna(0)
PriceChange_fillzero(close_price, open_price) ==
    IF IsNaN(NumSub(close_price, open_price)) THEN Zero
    ELSE NumSub(close_price, open_price)

\* 03 line 62: df["close_price"] - df["open_price"]
PriceChange(close_price, open_price) == NumSub(close_price, open_price)

-----------------------------------------------------------------------------
(* 03_create_aggregations.py: derived columns (lines 10-62) *)

ColOpen          == <<"o","p","e","n","_","p","r","i","c","e">>
ColClose         == <<"c","l","o","s","e","_","p","r","i","c","e">>
ColVolume        == <<"v","o","l","u","m","e">>
ColSector        == <<"s","e","c","t","o","r">>
ColValidated     == <<"v","a","l","i","d","a","t","e","d">>
ColExchange      == <<"e","x","c","h","a","n","g","e">>
ColGapUp         == <<"g","a","p","_","u","p","_","f","l","a","g">>
ColGapDown       == <<"g","a","p","_","d","o","w","n","_","f","l","a","g">>
ColValidatedFlag == <<"v","a","l","i","d","a","t","e","d","_","f","l","a","g">>
ColExchangeClean == <<"e","x","c","h","a","n","g","e","_","c","l","e","a","n">>
ColCountry       == <<"c","o","u","n","t","r","y">>
ColPriceChange   == <<"p","r","i","c","e","_","c","h","a","n","g","e">>
ColWeekStart     == <<"w","e","e","k","_","s","t","a","r","t">>
ColVolatility    == <<"v","o","l","a","t","i","l","i","t","y">>

\* lines 17-27: the keys of col_renames
col_renames ==
    {ColTicker, ColTradeDate, ColOpen, ColClose, ColVolume,
     ColSector, ColNotes, ColValidated, ColExchange}

\* line 35
numeric_cols == {ColOpen, ColClose, ColVolume}

\* Series.astype(str): a null of an object column becomes the text "None"
AsTypeStr(x) == IF x = NULL THEN <<"N","o","n","e">> ELSE x

\* lines 42-43: .astype(str).str.contains(pat, case=False, na=False).astype(int)
ContainsFlag_equals(x, pat) == IF Lower(AsTypeStr(x)) = Lower(pat) THEN 1 ELSE 0
ContainsFlag(x, pat) == IF Contains(Lower(AsTypeStr(x)), Lower(pat)) THEN 1 ELSE 0

\* line 44: .astype(str).str.lower().isin(["yes", "y"]).astype(int)
ValidatedFlag_yesonly(x) == IF Lower(AsTypeStr(x)) \in {<<"y","e","s">>} THEN 1 ELSE 0
ValidatedFlag(x) == IF Lower(AsTypeStr(x)) \in {<<"y","e","s">>, <<"y">>} THEN 1 ELSE 0

\* line 49: .astype(str).str.strip().str.lower()
ExchangeClean(x) == Lower(Strip(AsTypeStr(x)))

\* lines 50-56 without the fillna of line 57
Country_nofill(exchange_clean) ==
    IF exchange_clean \in {<<"n","a","s","d","a","q">>, <<"n","y","s","e">>} THEN <<"U","S","A">>
    ELSE IF exchange_clean = <<"l","s","e">>  THEN <<"U","K">>
    ELSE IF exchange_clean = <<"t","s","e">>  THEN <<"J","a","p","a","n">>
    ELSE IF exchange_clean = <<"h","k","e","x">> THEN <<"H","o","n","g"," ","K","o","n","g">>
    ELSE IF exchange_clean = <<"t","s","x">>  THEN <<"C","a","n","a","d","a">>
    ELSE NULL

\* lines 50-57: .map({...}).fillna("Unknown")
Country(exchange_clean) ==
    IF exchange_clean \in {<<"n","a","s","d","a","q">>, <<"n","y","s","e">>} THEN <<"U","S","A">>
    ELSE IF exchange_clean = <<"l","s","e">>  THEN <<"U","K">>
    ELSE IF exchange_clean = <<"t","s","e">>  THEN <<"J","a","p","a","n">>
    ELSE IF exchange_clean = <<"h","k","e","x">> THEN <<"H","o","n","g"," ","K","o","n","g">>
    ELSE IF exchange_clean = <<"t","s","x">>  THEN <<"C","a","n","a","d","a">>
    ELSE <<"U","n","k","n","o","w","n">>

\* line 15: the columns renamed; a row keeps its values under the new names
RenamedRow(r) ==
    [c \in { AggColumnName(o) : o \in DOMAIN r } |->
        r[CHOOSE o \in DOMAIN r : AggColumnName(o) = c]]

\* lines 28-30: a column of col_renames that is absent is added, all None
WithRequired(r) ==
    [c \in DOMAIN r \cup col_renames |-> IF c \in DOMAIN r THEN r[c] ELSE NULL]

\* lines 36-37
WithNumeric(r) ==
    [c \in DOMAIN r |-> IF c \in numeric_cols THEN ToNumeric(r[c]) ELSE r[c]]

\* lines 42-62
WithDerived(r) ==
    [c \in DOMAIN r \cup {ColGapUp, ColGapDown, ColValidatedFlag,
                          ColExchangeClean, ColCountry, ColPriceChange} |->
        IF c = ColGapUp THEN ContainsFlag(r[ColNotes], <<"g","a","p"," ","u","p">>)
        ELSE IF c = ColGapDown THEN ContainsFlag(r[ColNotes], <<"g","a","p"," ","d","o","w","n">>)
        ELSE IF c = ColValidatedFlag THEN ValidatedFlag(r[ColValidated])
        ELSE IF c = ColExchangeClean THEN ExchangeClean(r[ColExchange])
        ELSE IF c = ColCountry THEN Country(ExchangeClean(r[ColExchange]))
        ELSE IF c = ColPriceChange THEN PriceChange(r[ColClose], r[ColOpen])
        ELSE r[c]]

DerivedRow(r) == WithDerived(WithNumeric(WithRequired(RenamedRow(r))))

\* the DataFrame after line 62
Derive(tbl) ==
    [columns |-> IF tbl.rows = <<>>
                 THEN { AggColumnName(o) : o \in tbl.columns } \cup col_renames
                      \cup {ColGapUp, ColGapDown, ColValidatedFlag,
                            ColExchangeClean, ColCountry, ColPriceChange}
                 ELSE DOMAIN DerivedRow(tbl.rows[1]),
     rows    |-> [i \in DOMAIN tbl.rows |-> DerivedRow(tbl.rows[i])]]

-----------------------------------------------------------------------------
(* groupby(...).agg(...): pandas semantics *)

\* sum of a float column over the rows I, NaN skipped (0 when none is left)
RECURSIVE SumIdx(_, _, _)
SumIdx(R, I, c) ==
    IF I = {} THEN Zero
    ELSE LET i == CHOOSE j \in I : TRUE
         IN  NumAdd(R[i][c], SumIdx(R, I \ {i}, c))

NotNaN(R, I, c) == { i \in I : ~IsNaN(R[i][c]) }

\* "sum"
AggSum(R, I, c) == SumIdx(R, NotNaN(R, I, c), c)

\* "mean" with the null values counted in the divisor
AggMean_countall(R, I, c) ==
    IF NotNaN(R, I, c) = {} THEN NaN
    ELSE NumDivInt(SumIdx(R, NotNaN(R, I, c), c), Cardinality(I))

\* "mean": NaN skipped, NaN when nothing is left
AggMean(R, I, c) ==
    IF NotNaN(R, I, c) = {} THEN NaN
    ELSE NumDivInt(SumIdx(R, NotNaN(R, I, c), c), Cardinality(NotNaN(R, I, c)))

\* "sum" of an int column
RECURSIVE AggSumInt(_, _, _)
AggSumInt(R, I, c) ==
    IF I = {} THEN 0
    ELSE LET i == CHOOSE j \in I : TRUE
         IN  R[i][c] + AggSumInt(R, I \ {i}, c)

\* lambda x: x.isna().sum()
AggCountNaN(R, I, c) == Cardinality({ i \in I : IsNaN(R[i][c]) })

\* "count": the non-null values of a text column
AggCount(R, I, c) == Cardinality({ i \in I : R[i][c] # NULL })

\* groupby(c): the keys of the groups; dropna=True leaves out the rows whose
\* key is null
GroupKeys1(R, c) == { R[i][c] : i \in DOMAIN R } \ {NULL}

GroupKeys2(R, c1, c2) ==
    { <<R[i][c1], R[i][c2]>> : i \in { j \in DOMAIN R : R[j][c1] # NULL /\ R[j][c2] # NULL } }

Group1(R, c, key) == { i \in DOMAIN R : R[i][c] = key }
Group2(R, c1, c2, key) == { i \in DOMAIN R : <<R[i][c1], R[i][c2]>> = key }

-----------------------------------------------------------------------------
(* Calendar: Timestamp arithmetic of line 86 *)

\* days from 1970-01-01 to the civil date y-m-d (proleptic Gregorian)
DaysFromCivil(y, m, d) ==
    LET yy  == IF m <= 2 THEN y - 1 ELSE y
        era == yy \div 400
        yoe == yy - era * 400
        mp  == IF m > 2 THEN m - 3 ELSE m + 9
        doy == (153 * mp + 2) \div 5 + d - 1
        doe == yoe * 365 + yoe \div 4 - yoe \div 100 + doy
    IN  era * 146097 + doe - 719468

CivilFromDays(z) ==
    LET zz  == z + 719468
        era == zz \div 146097
        doe == zz - era * 146097
        yoe == (doe - doe \div 1460 + doe \div 36524 - doe \div 146096) \div 365
        doy == doe - (365 * yoe + yoe \div 4 - yoe \div 100)
        mp  == (5 * doy + 2) \div 153
        d   == doy - (153 * mp + 2) \div 5 + 1
        m   == IF mp < 10 THEN mp + 3 ELSE mp - 9
        y   == yoe + era * 400 + (IF m <= 2 THEN 1 ELSE 0)
    IN  [y |-> y, m |-> m, d |-> d]

\* 0 = Monday ... 6 = Sunday  (1970-01-01 was a Thursday)
Weekday(t) == (DaysFromCivil(t.y, t.m, t.d) + 3) % 7

\* .dt.to_period("W") then .start_time: the Monday that begins the week
\* (period W-SUN) holding t; a midnight Timestamp, written here as its date
WeekStart(t) ==
    IF t = NaT THEN NULL
    ELSE FormatDate(CivilFromDays(DaysFromCivil(t.y, t.m, t.d) - Weekday(t)))

-----------------------------------------------------------------------------
(* The six views (lines 67-149) *)

\* lines 68-76
DailyView(R) ==
    { [trade_date      |-> key[1],
       ticker          |-> key[2],
       avg_open_price  |-> AggMean(R, Group2(R, ColTradeDate, ColTicker, key), ColOpen),
       avg_close_price |-> AggMean(R, Group2(R, ColTradeDate, ColTicker, key), ColClose),
       total_volume    |-> AggSum(R, Group2(R, ColTradeDate, ColTicker, key), ColVolume),
       gap_up_count    |-> AggSumInt(R, Group2(R, ColTradeDate, ColTicker, key), ColGapUp),
       gap_down_count  |-> AggSumInt(R, Group2(R, ColTradeDate, ColTicker, key), ColGapDown),
       missing_open    |-> AggCountNaN(R, Group2(R, ColTradeDate, ColTicker, key), ColOpen),
       missing_close   |-> AggCountNaN(R, Group2(R, ColTradeDate, ColTicker, key), ColClose)]
      : key \in GroupKeys2(R, ColTradeDate, ColTicker) }

\* lines 86-87: the two columns added for the weekly view
WithWeek(r) ==
    [c \in DOMAIN r \cup {ColWeekStart, ColVolatility} |->
        IF c = ColWeekStart THEN WeekStart(ParseDate(r[ColTradeDate]))
        ELSE IF c = ColVolatility THEN NumSub(r[ColClose], r[ColOpen])
        ELSE r[c]]

\* lines 88-92
WeeklyView(R) ==
    { [week_start      |-> key[1],
       ticker          |-> key[2],
       avg_close_price |-> AggMean(R, Group2(R, ColWeekStart, ColTicker, key), ColClose),
       avg_volume      |-> AggMean(R, Group2(R, ColWeekStart, ColTicker, key), ColVolume),
       avg_volatility  |-> AggMean(R, Group2(R, ColWeekStart, ColTicker, key), ColVolatility)]
      : key \in GroupKeys2(R, ColWeekStart, ColTicker) }

\* lines 102-110
TickerView(R) ==
    { [ticker           |-> key,
       avg_open         |-> AggMean(R, Group1(R, ColTicker, key), ColOpen),
       avg_close        |-> AggMean(R, Group1(R, ColTicker, key), ColClose),
       avg_volume       |-> AggMean(R, Group1(R, ColTicker, key), ColVolume),
       price_change_avg |-> AggMean(R, Group1(R, ColTicker, key), ColPriceChange),
       validated_count  |-> AggSumInt(R, Group1(R, ColTicker, key), ColValidatedFlag),
       gap_up_count     |-> AggSumInt(R, Group1(R, ColTicker, key), ColGapUp),
       gap_down_count   |-> AggSumInt(R, Group1(R, ColTicker, key), ColGapDown)]
      : key \in GroupKeys1(R, ColTicker) }

\* lines 118-123
SectorView(R) ==
    { [sector         |-> key,
       avg_open       |-> AggMean(R, Group1(R, ColSector, key), ColOpen),
       avg_close      |-> AggMean(R, Group1(R, ColSector, key), ColClose),
       total_gap_up   |-> AggSumInt(R, Group1(R, ColSector, key), ColGapUp),
       total_gap_down |-> AggSumInt(R, Group1(R, ColSector, key), ColGapDown)]
      : key \in GroupKeys1(R, ColSector) }

\* lines 131-135
ExchangeView(R) ==
    { [exchange     |-> key,
       avg_open     |-> AggMean(R, Group1(R, ColExchange, key), ColOpen),
       avg_close    |-> AggMean(R, Group1(R, ColExchange, key), ColClose),
       total_volume |-> AggSum(R, Group1(R, ColExchange, key), ColVolume)]
      : key \in GroupKeys1(R, ColExchange) }

\* lines 143-147
NotesView(R) ==
    { [notes            |-> key,
       count            |-> AggCount(R, Group1(R, ColNotes, key), ColTicker),
       avg_price_change |-> AggMean(R, Group1(R, ColNotes, key), ColPriceChange),
       avg_volume       |-> AggMean(R, Group1(R, ColNotes, key), ColVolume)]
      : key \in GroupKeys1(R, ColNotes) }

-----------------------------------------------------------------------------
(* Aggregation run: create_aggregations on one cleaned table *)

ViewNames == {"agg_daily", "agg_weekly", "agg_ticker", "agg_sector",
              "agg_exchange", "agg_notes"}

NoViews == [v \in ViewNames |-> [written |-> FALSE, rows |-> {}]]

Written(rows) == [written |-> TRUE, rows |-> rows]

BaseRow ==
    [c \in col_renames |->
        IF c = ColTicker THEN <<"A","A","P","L">>
        ELSE IF c = ColTradeDate THEN <<"2","0","2","4","-","0","1","-","0","2">>
        ELSE IF c = ColOpen THEN <<"1","5","0">>
        ELSE IF c = ColClose THEN <<"1","5","2">>
        ELSE IF c = ColVolume THEN <<"1","0","0","0">>
        ELSE IF c = ColSector THEN <<"t","e","c","h">>
        ELSE IF c = ColNotes THEN <<"g","a","p"," ","u","p"," ","m","o","v","e">>
        ELSE IF c = ColValidated THEN <<"y">>
        ELSE <<"n","y","s","e">>]

Vary(c, v) == [BaseRow EXCEPT ![c] = v]

\* the rows a cleaned table is made of: the base row and the rows that
\* differ from it in one field
RowPool ==
    << BaseRow,
       Vary(ColTicker, NULL),     Vary(ColTicker, <<"M","S","F","T">>),
       Vary(ColTradeDate, NULL),  Vary(ColTradeDate, <<"2","0","2","4","-","0","1","-","0","9">>),
       Vary(ColOpen, NULL),       Vary(ColOpen, <<"1","5","1",".","5">>),
       Vary(ColClose, NULL),      Vary(ColVolume, NULL),
       Vary(ColSector, NULL),     Vary(ColSector, <<"e","n","e","r","g","y">>),
       Vary(ColNotes, NULL),      Vary(ColNotes, <<"g","a","p"," ","d","o","w","n"," ","d","a","y">>),
       Vary(ColValidated, NULL),  Vary(ColValidated, <<"n","o">>),
       Vary(ColExchange, NULL),   Vary(ColExchange, <<"x","y","z">>) >>

\* the columns missing from the cleaned table: none, or one of col_renames
AbsentChoices == {{}} \cup { {c} : c \in col_renames }

\* No view depends on the order of the rows, so the tables enumerated list
\* their rows in pool order.
PoolTables ==
    { idx \in UNION { [1..n -> DOMAIN RowPool] : n \in 0..MaxRows } :
        \A i \in 1..(Len(idx) - 1) : idx[i] <= idx[i + 1] }

Restrict(r, cols) == [c \in cols |-> r[c]]

InitAgg ==
    /\ \E idx \in PoolTables, absent \in AbsentChoices :
          cleaned = [columns |-> col_renames \ absent,
                     rows    |-> [i \in DOMAIN idx |->
                                    Restrict(RowPool[idx[i]], col_renames \ absent)]]
    /\ raw = <<>>
    /\ df = <<>>
    /\ views = NoViews
    /\ apc = "start"
    /\ IdleHeader /\ IdleCell /\ IdleRun

PriceAlphabet == {"1", "5", ".", "-"}

SamplePrices ==
    { NULL, <<"i","n","f">>, <<"-","i","n","f">>, <<"i","n","f","i","n","i","t","y">>, <<"n","a","n">>, <<"a","b","c">>, <<"1","4","9",".","5">> }

PriceTexts == TextsUpTo(PriceAlphabet, MaxPriceLen) \cup SamplePrices

\* one row whose two prices are any pair of price texts
InitPrice ==
    /\ \E o \in PriceTexts, c \in PriceTexts, t \in {BaseRow[ColTradeDate], NULL} :
          cleaned = [columns |-> col_renames,
                     rows    |-> << [BaseRow EXCEPT ![ColOpen] = o, ![ColClose] = c,
                                                    ![ColTradeDate] = t] >>]
    /\ raw = <<>>
    /\ df = <<>>
    /\ views = NoViews
    /\ apc = "start"
    /\ IdleHeader /\ IdleCell /\ IdleRun

\* lines 10-62
Prepare ==
    /\ apc = "start"
    /\ df' = Derive(cleaned)
    /\ apc' = "daily"
    /\ UNCHANGED <<raw, cleaned, views, headerVars, cellVars, runVars>>

\* lines 67-80
DailyAggregation ==
    /\ apc = "daily"
    /\ views' = IF ColTradeDate \in df.columns /\ ColTicker \in df.columns
                THEN [views EXCEPT !["agg_daily"] = Written(DailyView(df.rows))]
                ELSE views
    /\ apc' = "weekly"
    /\ UNCHANGED <<raw, cleaned, df, headerVars, cellVars, runVars>>

\* lines 85-96
WeeklyAggregation ==
    /\ apc = "weekly"
    /\ \A i \in DOMAIN df.rows :
          df.rows[i][ColTradeDate] = NULL \/ ParseDate(df.rows[i][ColTradeDate]) # NaT
    /\ IF ColTradeDate \in df.columns /\ ColTicker \in df.columns
       THEN /\ df' = [columns |-> df.columns \cup {ColWeekStart, ColVolatility},
                      rows    |-> [i \in DOMAIN df.rows |-> WithWeek(df.rows[i])]]
            /\ views' = [views EXCEPT !["agg_weekly"] =
                            Written(WeeklyView([i \in DOMAIN df.rows |-> WithWeek(df.rows[i])]))]
       ELSE UNCHANGED <<df, views>>
    /\ apc' = "ticker"
    /\ UNCHANGED <<raw, cleaned, headerVars, cellVars, runVars>>

\* line 86 raising: pd.to_datetime without errors="coerce" on a text that is
\* no date (ValueError), or, on the pandas versions whose Series.apply calls
\* the lambda on every element of the period column, r.start_time on NaT
\* (AttributeError: NaT has no start_time).  The exception leaves
\* create_aggregations.
WeeklyRaises ==
    /\ apc = "weekly"
    /\ ColTradeDate \in df.columns /\ ColTicker \in df.columns
    /\ \E i \in DOMAIN df.rows : ParseDate(df.rows[i][ColTradeDate]) = NaT
    /\ apc' = "error"
    /\ UNCHANGED <<raw, cleaned, df, views, headerVars, cellVars, runVars>>

\* lines 101-112
TickerAggregation ==
    /\ apc = "ticker"
    /\ views' = IF ColTicker \in df.columns
                THEN [views EXCEPT !["agg_ticker"] = Written(TickerView(df.rows))]
                ELSE views
    /\ apc' = "sector"
    /\ UNCHANGED <<raw, cleaned, df, headerVars, cellVars, runVars>>

\* lines 117-125
SectorAggregation ==
    /\ apc = "sector"
    /\ views' = IF ColSector \in df.columns
                THEN [views EXCEPT !["agg_sector"] = Written(SectorView(df.rows))]
                ELSE views
    /\ apc' = "exchange"
    /\ UNCHANGED <<raw, cleaned, df, headerVars, cellVars, runVars>>

\* lines 130-137
ExchangeAggregation ==
    /\ apc = "exchange"
    /\ views' = IF ColExchange \in df.columns
                THEN [views EXCEPT !["agg_exchange"] = Written(ExchangeView(df.rows))]
                ELSE views
    /\ apc' = "notes"
    /\ UNCHANGED <<raw, cleaned, df, headerVars, cellVars, runVars>>

\* lines 142-149
NotesAggregation ==
    /\ apc = "notes"
    /\ views' = IF ColNotes \in df.columns
                THEN [views EXCEPT !["agg_notes"] = Written(NotesView(df.rows))]
                ELSE views
    /\ apc' = "done"
    /\ UNCHANGED <<raw, cleaned, df, headerVars, cellVars, runVars>>

NextAgg ==
    \/ Prepare
    \/ DailyAggregation
    \/ WeeklyAggregation
    \/ WeeklyRaises
    \/ TickerAggregation
    \/ SectorAggregation
    \/ ExchangeAggregation
    \/ NotesAggregation

SpecAgg   == InitAgg /\ [][NextAgg]_vars
SpecPrice == InitPrice /\ [][NextAgg]_vars

\* sum of an integer column of a view over its groups
RECURSIVE SumField(_, _)
SumField(groups, f) ==
    IF groups = {} THEN 0
    ELSE LET g == CHOOSE x \in groups : TRUE
         IN  g[f] + SumField(groups \ {g}, f)

FlagTotal(c)    == Cardinality({ i \in DOMAIN df.rows : df.rows[i][c] = 1 })
MissingTotal(c) == Cardinality({ i \in DOMAIN df.rows : IsNaN(df.rows[i][c]) })

\* C1: in every view the rows whose group key is null form a group of their
\* own, so each count-type column summed over the groups of a view equals
\* that count over the whole table.
C1_CountsSumToTable ==
    apc = "done" =>
        /\ SumField(views["agg_daily"].rows, "gap_up_count") = FlagTotal(ColGapUp)
        /\ SumField(views["agg_daily"].rows, "gap_down_count") = FlagTotal(ColGapDown)
        /\ SumField(views["agg_daily"].rows, "missing_open") = MissingTotal(ColOpen)
        /\ SumField(views["agg_daily"].rows, "missing_close") = MissingTotal(ColClose)
        /\ SumField(views["agg_ticker"].rows, "validated_count") = FlagTotal(ColValidatedFlag)
        /\ SumField(views["agg_ticker"].rows, "gap_up_count") = FlagTotal(ColGapUp)
        /\ SumField(views["agg_ticker"].rows, "gap_down_count") = FlagTotal(ColGapDown)
        /\ SumField(views["agg_sector"].rows, "total_gap_up") = FlagTotal(ColGapUp)
        /\ SumField(views["agg_sector"].rows, "total_gap_down") = FlagTotal(ColGapDown)
        /\ SumField(views["agg_notes"].rows, "count") = Len(df.rows)

\* C2: in the Notes view the count of every notes value is the number of
\* rows of the table with that notes value, whatever their ticker.
C2_NotesCountIsRowCount ==
    apc = "done" =>
        \A i \in DOMAIN df.rows :
            df.rows[i][ColNotes] # NULL =>
                \E g \in views["agg_notes"].rows :
                    /\ g.notes = df.rows[i][ColNotes]
                    /\ g.count = Cardinality({ j \in DOMAIN df.rows :
                                                 df.rows[j][ColNotes] = g.notes })

\* the difference c - o of two finite values, stated by cross-multiplication
IsDifference(p, c, o) ==
    IsFinite(p) /\ p.n * c.d * o.d = (c.n * o.d - o.n * c.d) * p.d

\* C10 as stated: price_change is null if and only if open_price or
\* close_price is null after numeric coercion, and otherwise it is
\* close_price minus open_price.
C10_NullIffOperandNull ==
    apc # "start" =>
        \A i \in DOMAIN df.rows :
            LET o == df.rows[i][ColOpen]
                c == df.rows[i][ColClose]
                p == df.rows[i][ColPriceChange]
            IN  /\ IsNaN(p) <=> (IsNaN(o) \/ IsNaN(c))
                /\ (IsFinite(o) /\ IsFinite(c)) => IsDifference(p, c, o)

\* C10 amended: price_change is null if and only if open_price or
\* close_price is null after numeric coercion or both are the same
\* infinity; for finite prices it is close_price minus open_price, so it is
\* zero only when the two prices are equal.
C10_PriceChange ==
    apc # "start" =>
        \A i \in DOMAIN df.rows :
            LET o == df.rows[i][ColOpen]
                c == df.rows[i][ColClose]
                p == df.rows[i][ColPriceChange]
            IN  /\ o = ToNumeric(cleaned.rows[i][ColOpen])
                /\ c = ToNumeric(cleaned.rows[i][ColClose])
                /\ IsNaN(p) <=> (IsNaN(o) \/ IsNaN(c) \/ (IsInf(o) /\ IsInf(c) /\ o = c))
                /\ (IsFinite(o) /\ IsFinite(c)) => IsDifference(p, c, o)
                /\ p = Zero => (IsFinite(o) /\ o = c)

\* a row whose open_price is a text that does not parse, with a finite
\* close_price: price_change came out null
C10_Witness ==
    /\ apc = "done"
    /\ \E i \in DOMAIN df.rows :
          /\ cleaned.rows[i][ColOpen] # NULL
          /\ IsNaN(df.rows[i][ColOpen])
          /\ IsFinite(df.rows[i][ColClose])
          /\ IsNaN(df.rows[i][ColPriceChange])

-----------------------------------------------------------------------------
(* Pipeline run: 02_clean_data.py, then create_aggregations, on the files  *)
(* of the output directory.  A file records which run's raw input its      *)
(* content derives from (data), which run wrote it (by) and whether it is  *)
(* absent, partly written or complete.                                     *)

CleanedFile == "cleaned"

\* the order in which create_aggregations writes the views
ViewOrder == <<"agg_daily", "agg_weekly", "agg_ticker", "agg_sector",
               "agg_exchange", "agg_notes">>

Tables == {CleanedFile} \cup ViewNames

Absent   == [data |-> 0, by |-> 0, st |-> "absent"]
Prior    == [data |-> 0, by |-> 0, st |-> "complete"]

At(p)       == [at |-> p, v |-> 0]
AtView(p, i) == [at |-> p, v |-> i]

\* Before the first run: cleaned.parquet and the views are left from
\* earlier production (run 0) or not there yet.
Init ==
    /\ \E c \in {Absent, Prior}, w \in {Absent, Prior} :
          store = [f \in Tables |-> IF f = CleanedFile THEN c ELSE w]
    /\ nullDate \in BOOLEAN
    /\ run = 0
    /\ dfVer = 0
    /\ rpc = At("idle")
    /\ failed = "none"
    /\ IdleHeader /\ IdleCell /\ IdleAgg

\* a new run on new raw input
StartRun ==
    /\ rpc.at \in {"idle", "done", "error", "aborted"}
    /\ run < MaxRuns
    /\ run' = run + 1
    /\ rpc' = At("clean")
    /\ failed' = "none"
    /\ UNCHANGED <<store, dfVer, nullDate, headerVars, cellVars, aggVars>>

\* 02_clean_data.py lines 8-65: the raw input is read and cleaned in memory
\* and printed; the script writes no file
CleanData ==
    /\ rpc.at = "clean"
    /\ dfVer' = run
    /\ rpc' = At("read")
    /\ UNCHANGED <<store, run, failed, nullDate, headerVars, cellVars, aggVars>>

\* 02_clean_data.py line 10: read_csv raises (source unreachable)
CleanFails ==
    /\ rpc.at = "clean"
    /\ rpc' = At("error")
    /\ UNCHANGED <<store, run, dfVer, failed, nullDate, headerVars, cellVars, aggVars>>

\* 03 line 10: df = pd.read_parquet(cleaned_path), then lines 15-62
ReadCleaned ==
    /\ rpc.at = "read"
    /\ store[CleanedFile].st = "complete"
    /\ dfVer' = store[CleanedFile].data
    /\ rpc' = AtView("view", 1)
    /\ UNCHANGED <<store, run, failed, nullDate, headerVars, cellVars, aggVars>>

\* 03 line 10 raising: no readable cleaned.parquet
ReadCleanedFails ==
    /\ rpc.at = "read"
    /\ store[CleanedFile].st # "complete"
    /\ rpc' = At("error")
    /\ UNCHANGED <<store, run, dfVer, failed, nullDate, headerVars, cellVars, aggVars>>

\* line 86 raising on a null trade_date (see WeeklyRaises of the
\* aggregation run): the exception leaves create_aggregations
WeeklyStops ==
    /\ rpc = AtView("view", 2)
    /\ nullDate
    /\ rpc' = At("error")
    /\ UNCHANGED <<store, run, dfVer, failed, nullDate, headerVars, cellVars, aggVars>>

\* to_parquet(out_dir / name) (lines 77, 93, 111, 124, 136, 148) opens the
\* destination itself for writing: from here until the footer is written the
\* file under the view's name is neither the old table nor the new one
BeginWrite ==
    /\ rpc.at = "view"
    /\ store' = [store EXCEPT ![ViewOrder[rpc.v]] =
                    [data |-> dfVer, by |-> run, st |-> "partial"]]
    /\ rpc' = AtView("writing", rpc.v)
    /\ UNCHANGED <<run, dfVer, failed, nullDate, headerVars, cellVars, aggVars>>

\* to_parquet returns; the next view, or the end of create_aggregations
FinishWrite ==
    /\ rpc.at = "writing"
    /\ store' = [store EXCEPT ![ViewOrder[rpc.v]].st = "complete"]
    /\ rpc' = IF rpc.v < Len(ViewOrder) THEN AtView("view", rpc.v + 1) ELSE At("done")
    /\ UNCHANGED <<run, dfVer, failed, nullDate, headerVars, cellVars, aggVars>>

\* to_parquet raises, before the file is opened or in the middle of the
\* write; nothing in create_aggregations catches it
WriteFails ==
    /\ rpc.at \in {"view", "writing"}
    /\ failed' = ViewOrder[rpc.v]
    /\ rpc' = At("error")
    /\ UNCHANGED <<store, run, dfVer, nullDate, headerVars, cellVars, aggVars>>

\* the process is stopped from outside
Abort ==
    /\ rpc.at \in {"clean", "read", "view", "writing"}
    /\ rpc' = At("aborted")
    /\ UNCHANGED <<store, run, dfVer, failed, nullDate, headerVars, cellVars, aggVars>>

Next ==
    \/ StartRun
    \/ CleanData
    \/ CleanFails
    \/ ReadCleaned
    \/ ReadCleanedFails
    \/ WeeklyStops
    \/ BeginWrite
    \/ FinishWrite
    \/ WriteFails
    \/ Abort

Spec == Init /\ [][Next]_vars

\* C3: writing a view is an atomic replace; the table readable under a view
\* name is never a partly written one, also when the run is aborted or
\* fails in the middle of the write.
C3_NoPartialView ==
    \A v \in ViewNames : store[v].st # "partial"

\* C4: when persisting one view fails, the views already written stay
\* written and every other view of the run is still computed and
\* persisted.
C4_OtherViewsPersisted ==
    (rpc.at = "error" /\ failed # "none") =>
        \A w \in ViewNames \ {failed} :
            store[w].by = run /\ store[w].st = "complete"

\* C5: a run that completes without error has replaced the cleaned table
\* and the six views with tables derived from that run's raw input.
C5_RunReplacesAllTables ==
    rpc.at = "done" =>
        \A f \in Tables : store[f].st = "complete" /\ store[f].data = run

-----------------------------------------------------------------------------
(* From the raw rows to the views: the cleaned table is the cleaning of
   02_clean_data.py applied to the rows of the CSV file, and the views are
   made from it by create_aggregations. *)

\* the header of a column in the CSV file
RawName(c) ==
    IF c = ColTradeDate THEN <<"T","r","a","d","e"," ","D","a","t","e">>
    ELSE IF c = ColOpen THEN <<"O","p","e","n"," ","P","r","i","c","e">>
    ELSE IF c = ColClose THEN <<"C","l","o","s","e"," ","P","r","i","c","e">>
    ELSE Upper(c)

RawColumns == { RawName(c) : c \in col_renames }

RawBaseRow ==
    [h \in RawColumns |->
        IF h = RawName(ColTicker) THEN <<"a","a","p","l">>
        ELSE IF h = RawName(ColTradeDate) THEN <<"2","0","2","4","-","0","1","-","0","2">>
        ELSE IF h = RawName(ColOpen) THEN <<"1","5","0">>
        ELSE IF h = RawName(ColClose) THEN <<"1","5","2">>
        ELSE IF h = RawName(ColVolume) THEN <<"1","0","0","0">>
        ELSE IF h = RawName(ColSector) THEN <<"T","e","c","h">>
        ELSE IF h = RawName(ColNotes) THEN <<"G","a","p"," ","U","p"," ","m","o","v","e">>
        ELSE IF h = RawName(ColValidated) THEN <<"Y">>
        ELSE <<"N","Y","S","E">>]

RawVary(c, v) == [RawBaseRow EXCEPT ![RawName(c)] = v]

\* the same ticker in another spelling, other prices, no notes
RawSecondRow ==
    [RawBaseRow EXCEPT ![RawName(ColTicker)] = <<"A","A","P","L"," ">>,
                       ![RawName(ColOpen)]   = <<"1","5","1">>,
                       ![RawName(ColClose)]  = <<"1","4","9",".","5">>,
                       ![RawName(ColNotes)]  = <<>>]

\* the rows a CSV file is made of: the base row, the second row and the rows
\* that differ from the base row in one field
RawRowPool ==
    << RawBaseRow, RawSecondRow,
       RawVary(ColTicker, <<>>),          RawVary(ColTicker, <<"m","s","f","t">>),
       RawVary(ColTradeDate, <<>>),       RawVary(ColTradeDate, <<"2","0","2","4","-","0","1","-","0","9">>),
       RawVary(ColOpen, <<"N","/","A">>),         RawVary(ColClose, <<"-">>),
       RawVary(ColVolume, <<"n","u","l","l">>),
       RawVary(ColNotes, <<"G","a","p"," ","D","o","w","n"," ","d","a","y">>), RawVary(ColNotes, <<"g","a","p","u","p">>),
       RawVary(ColNotes, <<"U","p"," ","g","a","p">>),     RawVary(ColNotes, <<"G","A","P"," ","U","P",","," ","t","h","e","n"," ","g","a","p"," ","d","o","w","n">>),
       RawVary(ColNotes, <<>>),
       RawVary(ColValidated, <<"y","e","s">>),    RawVary(ColValidated, <<"Y","e","s">>),
       RawVary(ColValidated, <<"n","o">>),     RawVary(ColValidated, <<"y","e","s","!">>),
       RawVary(ColValidated, <<" ","y"," ">>),    RawVary(ColValidated, <<>>),
       RawVary(ColExchange, <<"x","y","z">>),     RawVary(ColExchange, <<"n","a","s","d","a","q">>),
       RawVary(ColExchange, <<"L","S","E">>),     RawVary(ColExchange, <<"t","s","e">>),
       RawVary(ColExchange, <<"h","k","e","x">>),    RawVary(ColExchange, <<" ","T","S","X"," ">>),
       RawVary(ColExchange, <<"l","s","e","2">>),    RawVary(ColExchange, <<>>) >>

RawTables ==
    { idx \in UNION { [1..n -> DOMAIN RawRowPool] : n \in 0..MaxRows } :
        \A i \in 1..(Len(idx) - 1) : idx[i] <= idx[i + 1] }

\* 02_clean_data.py lines 10-55 on one field of the column named col
CleanCell(col, text) ==
    FixDate(col, CaseValue(col, ReplaceMissing(TrimValue(ReadField(text)))))

\* 02_clean_data.py lines 10-55 on the table
CleanTable(tbl) ==
    [columns |-> { to_snake_case(h) : h \in RawColumns },
     rows    |-> [i \in DOMAIN tbl |->
                    [c \in { to_snake_case(h) : h \in RawColumns } |->
                        CleanCell(c, tbl[i][CHOOSE h \in RawColumns : to_snake_case(h) = c])]]]

InitPipe ==
    /\ \E idx \in RawTables : raw = [i \in DOMAIN idx |-> RawRowPool[idx[i]]]
    /\ cleaned = CleanTable(raw)
    /\ df = <<>>
    /\ views = NoViews
    /\ apc = "start"
    /\ IdleHeader /\ IdleCell /\ IdleRun

SpecPipe == InitPipe /\ [][NextAgg]_vars

-----------------------------------------------------------------------------
(* The derived fields and the views, on the tables cleaned from raw rows *)

\* the country of an exchange, as a table
SpecCountry(e) ==
    LET k == IF e = NULL THEN NULL ELSE Lower(Strip(e))
    IN  IF k = <<"n","a","s","d","a","q">> \/ k = <<"n","y","s","e">> THEN <<"U","S","A">>
        ELSE IF k = <<"l","s","e">>  THEN <<"U","K">>
        ELSE IF k = <<"t","s","e">>  THEN <<"J","a","p","a","n">>
        ELSE IF k = <<"h","k","e","x">> THEN <<"H","o","n","g"," ","K","o","n","g">>
        ELSE IF k = <<"t","s","x">>  THEN <<"C","a","n","a","d","a">>
        ELSE <<"U","n","k","n","o","w","n">>

RawExchanges == { raw[i][RawName(ColExchange)] : i \in DOMAIN raw }

\* C11: the country of every row is the country of its exchange in the table
\* nasdaq, nyse -> USA, lse -> UK, tse -> Japan, hkex -> Hong Kong,
\* tsx -> Canada (the exchange trimmed and lower-cased), and Unknown for
\* every other exchange and for a null one; when the raw exchanges are NYSE
\* and xyz the countries are USA and Unknown and the Exchange view has
\* exactly two groups.
C11_CountryOfExchange ==
    /\ apc # "start" =>
          \A i \in DOMAIN df.rows :
              df.rows[i][ColCountry] = SpecCountry(df.rows[i][ColExchange])
    /\ (views["agg_exchange"].written /\ RawExchanges = {<<"N","Y","S","E">>, <<"x","y","z">>}) =>
          /\ { df.rows[i][ColCountry] : i \in DOMAIN df.rows } = {<<"U","S","A">>, <<"U","n","k","n","o","w","n">>}
          /\ Cardinality(views["agg_exchange"].rows) = 2

C11_Witness ==
    /\ apc = "done"
    /\ RawExchanges = {<<"N","Y","S","E">>, <<"x","y","z">>}
    /\ Cardinality(views["agg_exchange"].rows) = 2
    /\ \E i, j \in DOMAIN df.rows :
          /\ df.rows[i][ColCountry] = <<"U","S","A">>
          /\ df.rows[j][ColCountry] = <<"U","n","k","n","o","w","n">>

\* the text x holds the text pat at some position
HasSubstring(x, pat) ==
    \E k \in 1..(Len(x) - Len(pat) + 1) : SubSeq(x, k, k + Len(pat) - 1) = pat

\* C12: for every row gap_up_flag is 1 exactly when notes is non-null and
\* holds "gap up", gap_down_flag is 1 exactly when notes is non-null and
\* holds "gap down"; both flags are 0 or 1, never null, and 0 when notes is
\* null.
C12_GapFlags ==
    apc # "start" =>
        \A i \in DOMAIN df.rows :
            LET notes == df.rows[i][ColNotes]
            IN  /\ df.rows[i][ColGapUp] \in {0, 1}
                /\ df.rows[i][ColGapDown] \in {0, 1}
                /\ df.rows[i][ColGapUp] = 1 <=>
                      (notes # NULL /\ HasSubstring(notes, <<"g","a","p"," ","u","p">>))
                /\ df.rows[i][ColGapDown] = 1 <=>
                      (notes # NULL /\ HasSubstring(notes, <<"g","a","p"," ","d","o","w","n">>))

C12_Witness ==
    /\ apc = "done"
    /\ \E i, j \in DOMAIN df.rows :
          /\ df.rows[i][ColNotes] # NULL
          /\ df.rows[i][ColGapUp] = 1 /\ df.rows[i][ColGapDown] = 1
          /\ df.rows[j][ColNotes] = NULL
          /\ df.rows[j][ColGapUp] = 0 /\ df.rows[j][ColGapDown] = 0

\* C13: validated_flag is 1 exactly when validated, lower-cased, is "yes" or
\* "y"; in the Ticker view the validated_count of a ticker is the number of
\* the rows of that ticker whose validated_flag is 1.
C13_ValidatedCount ==
    /\ apc # "start" =>
          \A i \in DOMAIN df.rows :
              LET v == df.rows[i][ColValidated]
              IN  /\ df.rows[i][ColValidatedFlag] \in {0, 1}
                  /\ df.rows[i][ColValidatedFlag] = 1 <=>
                        (v # NULL /\ (Lower(v) = <<"y","e","s">> \/ Lower(v) = <<"y">>))
    /\ views["agg_ticker"].written =>
          /\ \A i \in DOMAIN df.rows :
                df.rows[i][ColTicker] # NULL =>
                    \E g \in views["agg_ticker"].rows : g.ticker = df.rows[i][ColTicker]
          /\ \A g \in views["agg_ticker"].rows :
                g.validated_count =
                    Cardinality({ i \in DOMAIN df.rows :
                                    /\ df.rows[i][ColTicker] = g.ticker
                                    /\ df.rows[i][ColValidatedFlag] = 1 })

C13_Witness ==
    /\ apc = "done"
    /\ \E g \in views["agg_ticker"].rows :
          /\ g.validated_count = 1
          /\ \E i, j \in DOMAIN df.rows :
                /\ df.rows[i][ColTicker] = g.ticker /\ df.rows[i][ColValidatedFlag] = 1
                /\ df.rows[j][ColTicker] = g.ticker /\ df.rows[j][ColValidatedFlag] = 0
                /\ df.rows[j][ColValidated] # NULL

-----------------------------------------------------------------------------
(* A cleaned table that lacks a column (tables of SpecAgg) *)

AbsentColumns == col_renames \ cleaned.columns

\* the columns a view is grouped by
Requires(v) ==
    IF v = "agg_daily" \/ v = "agg_weekly" THEN {ColTradeDate, ColTicker}
    ELSE IF v = "agg_ticker" THEN {ColTicker}
    ELSE IF v = "agg_sector" THEN {ColSector}
    ELSE IF v = "agg_exchange" THEN {ColExchange}
    ELSE {ColNotes}

\* C14: when the cleaned table lacks a column of col_renames (and holds no
\* null trade_date of its own), create_aggregations does not fail: the
\* column is added with every value null, the views grouped by it come out
\* empty and all six views are produced.
C14_AbsentColumnNoFailure ==
    (/\ AbsentColumns # {}
     /\ \A i \in DOMAIN cleaned.rows :
           ColTradeDate \in cleaned.columns => cleaned.rows[i][ColTradeDate] # NULL)
    => /\ apc # "error"
       /\ apc # "start" =>
             \A i \in DOMAIN df.rows : \A c \in AbsentColumns :
                 df.rows[i][c] = (IF c \in numeric_cols THEN NaN ELSE NULL)
       /\ apc = "done" =>
             \A v \in ViewNames :
                 /\ views[v].written
                 /\ Requires(v) \cap AbsentColumns # {} => views[v].rows = {}

-----------------------------------------------------------------------------
(* The Daily view (runs of SpecPipe) *)

\* the rows of the group g of the Daily view
DailyRows(g) ==
    { i \in DOMAIN df.rows :
        df.rows[i][ColTradeDate] = g.trade_date /\ df.rows[i][ColTicker] = g.ticker }

\* avg is the mean of the column c over the rows of I that hold a value, by
\* cross-multiplication, and null when no row of I holds one
IsMeanOf(avg, I, c) ==
    LET J == { i \in I : ~IsNaN(df.rows[i][c]) }
        S == SumIdx(df.rows, J, c)
    IN  IF J = {} THEN IsNaN(avg)
        ELSE IsFinite(avg) /\ avg.n * Cardinality(J) * S.d = S.n * avg.d

\* C15: every row with a trade_date and a ticker is in the group of the
\* Daily view with its key; in every group the two averages are the means
\* of the non-null prices, total_volume is the sum of the non-null volumes,
\* the gap counts are the numbers of rows with the flag set and the missing
\* counts the numbers of rows with a null price.  The raw rows "aapl" and
\* "AAPL " of 2024-01-02 with opens 150 and 151, closes 152 and 149.5 and
\* notes "Gap Up move" and "" make one group AAPL with averages 150.5 and
\* 150.75, gap_up_count 1, gap_down_count 0 and no missing price.
C15_DailyView ==
    views["agg_daily"].written =>
        /\ \A i \in DOMAIN df.rows :
              (df.rows[i][ColTradeDate] # NULL /\ df.rows[i][ColTicker] # NULL) =>
                  \E g \in views["agg_daily"].rows : i \in DailyRows(g)
        /\ \A g \in views["agg_daily"].rows :
              /\ DailyRows(g) # {}
              /\ IsMeanOf(g.avg_open_price, DailyRows(g), ColOpen)
              /\ IsMeanOf(g.avg_close_price, DailyRows(g), ColClose)
              /\ g.total_volume =
                    SumIdx(df.rows, { i \in DailyRows(g) : ~IsNaN(df.rows[i][ColVolume]) }, ColVolume)
              /\ g.gap_up_count =
                    Cardinality({ i \in DailyRows(g) : df.rows[i][ColGapUp] = 1 })
              /\ g.gap_down_count =
                    Cardinality({ i \in DailyRows(g) : df.rows[i][ColGapDown] = 1 })
              /\ g.missing_open =
                    Cardinality({ i \in DailyRows(g) : IsNaN(df.rows[i][ColOpen]) })
              /\ g.missing_close =
                    Cardinality({ i \in DailyRows(g) : IsNaN(df.rows[i][ColClose]) })
        /\ raw = <<RawBaseRow, RawSecondRow>> =>
              views["agg_daily"].rows =
                  { [trade_date      |-> <<"2","0","2","4","-","0","1","-","0","2">>,
                     ticker          |-> <<"A","A","P","L">>,
                     avg_open_price  |-> [k |-> "num", n |-> 301, d |-> 2],
                     avg_close_price |-> [k |-> "num", n |-> 603, d |-> 4],
                     total_volume    |-> [k |-> "num", n |-> 2000, d |-> 1],
                     gap_up_count    |-> 1,
                     gap_down_count  |-> 0,
                     missing_open    |-> 0,
                     missing_close   |-> 0] }

C15_Witness ==
    /\ apc = "done"
    /\ raw = <<RawBaseRow, RawSecondRow>>
    /\ \E g \in views["agg_daily"].rows :
          /\ g.ticker = <<"A","A","P","L">>
          /\ DailyRows(g) = {1, 2}
          /\ g.avg_open_price = [k |-> "num", n |-> 301, d |-> 2]
          /\ g.gap_up_count = 1

-----------------------------------------------------------------------------
(* The Weekly view (tables of SpecAgg) *)

DayNumber(text) ==
    DaysFromCivil(ParseDate(text).y, ParseDate(text).m, ParseDate(text).d)

\* w is the Monday of the calendar week that holds the date d
IsMondayOfWeek(w, d) ==
    /\ ParseDate(w) # NaT
    /\ Weekday(ParseDate(w)) = 0
    /\ DayNumber(w) <= DayNumber(d)
    /\ DayNumber(d) <= DayNumber(w) + 6

\* the rows of the table with the ticker and the week of the group g
WeeklyRows(g) ==
    { j \in DOMAIN df.rows :
        /\ df.rows[j][ColTicker] = g.ticker
        /\ df.rows[j][ColTradeDate] # NULL
        /\ IsMondayOfWeek(g.week_start, df.rows[j][ColTradeDate]) }

\* C16: once the Weekly view is written, every row with a non-null
\* trade_date is in the group whose week_start is the Monday of the week of
\* its trade_date, and the avg_volatility of that group is the mean of
\* close - open over the rows of the group with both prices.
C16_WeeklyView ==
    views["agg_weekly"].written =>
        \A i \in DOMAIN df.rows :
            df.rows[i][ColTradeDate] # NULL =>
                \E g \in views["agg_weekly"].rows :
                    /\ i \in WeeklyRows(g)
                    /\ \A j \in WeeklyRows(g) :
                          (IsFinite(df.rows[j][ColOpen]) /\ IsFinite(df.rows[j][ColClose])) =>
                              IsDifference(df.rows[j][ColVolatility],
                                           df.rows[j][ColClose], df.rows[j][ColOpen])
                    /\ IsMeanOf(g.avg_volatility,
                                { j \in WeeklyRows(g) :
                                    ~IsNaN(df.rows[j][ColOpen]) /\ ~IsNaN(df.rows[j][ColClose]) },
                                ColVolatility)

-----------------------------------------------------------------------------
(* The cleaned cell and the missing tokens (runs of SpecCell) *)

\* C17: after the trim, the replacement of the missing tokens and the
\* casing, no cell is a text equal to a missing token, whatever the raw
\* text was; a raw "Na" of a ticker column and a raw "Null" of another
\* column are null, not "NA" and "null".
C17_NoTokenAfterCleaning ==
    cpc \in {"cased", "done"} => cell \notin SpecTokens

====
